---- MODULE Spec2Model ----
(***************************************************************************)
(* Model of scripts/ai.py (gef-extras): the ai command, its conversation *)
(* history (LAST_QUESTION / LAST_ANSWER / LAST_PC / LAST_COMMAND), prompt  *)
(* construction and the model-client dispatch.                             *)
(*                                                                         *)
(* Strings are sequences of tokens.  The token "SP" stands for white       *)
(* space, "ANSI" for one complete colour escape sequence, "[" and "]" for  *)
(* the brackets of the eflags line.  Model names are token sequences cut   *)
(* at the places the code's prefix / substring tests look at.  A code     *)
(* fence (three backquotes) is written ~~~.                                *)
(***************************************************************************)
EXTENDS Integers, Sequences, FiniteSets, TLC

\* ------------------------------------------------------------------ bounds
\* invocations of the command in a behaviour of Spec
MaxInvocations == 3
\* invocations of the command in a behaviour of SpecWindow
MaxTurns == 5

\* ------------------------------------------------------- program constants
HISTORY_LENGTH == 4

\* Python's None, where a string is expected
None == "None"

\* what gdb prints for info reg $pc at the places the inferior stops
Locations == {"rip 0x401000", "rip 0x401004"}
\* auxiliary commands the operator passes with -c
Commands == {"info frame", "x/4i $pc"}

\* model names, as token sequences
GPT35_TURBO == <<"gpt-3.5-", "turbo">>
GPT4 == <<"gpt-4">>
CLAUDE_V1 == <<"claude", "-v1">>
CLAUDE_TURBO == <<"claude", "-", "turbo">>
DAVINCI == <<"text-davinci-003">>
ModelNames == {GPT35_TURBO, GPT4, CLAUDE_V1, CLAUDE_TURBO, DAVINCI}

\* str.startswith and the substring test, at token granularity
startswith(s, tok) == Len(s) >= 1 /\ s[1] = tok
contains(s, tok) == \E i \in 1..Len(s) : s[i] = tok

\* results of calls that may raise
Ok(v) == [ok |-> TRUE, val |-> v]
Raise(e) == [ok |-> FALSE, exc |-> e, msg |-> <<>>]
RaiseMsg(e, m) == [ok |-> FALSE, exc |-> e, msg |-> m]

\* ---------------------------------------------------------------- strings
RECURSIVE lstrip(_)
lstrip(s) == IF s # <<>> /\ Head(s) = "SP" THEN lstrip(Tail(s)) ELSE s

RECURSIVE rstrip(_)
rstrip(s) ==
  IF s # <<>> /\ s[Len(s)] = "SP" THEN rstrip(SubSeq(s, 1, Len(s) - 1)) ELSE s

\* str.strip()
strip(s) == rstrip(lstrip(s))

\* " ".join(words)
RECURSIVE join(_)
join(words) ==
  IF Len(words) = 1 THEN <<words[1]>>
  ELSE <<words[1], "SP">> \o join(Tail(words))

\* re.sub(r"\x1b[^m]*m", "", text)
strip_colors(text) == SelectSeq(text, LAMBDA t : t # "ANSI")


\* ------------------------------------------------------------ environment
VARIABLES
  LAST_QUESTION,   \* questions of the retained turns, oldest first
  LAST_ANSWER,     \* answers of the retained turns, oldest first
  LAST_PC,         \* program location stored by the last completed invocation
  LAST_COMMAND,    \* auxiliary command stored by the last continuation decision
  DUMMY,           \* dummy mode (no network)
  environ,         \* os.environ: names of the credentials that are set
  ninv,            \* number of invocations of the command so far
  last,            \* what the most recent invocation did (observation)
  log              \* (question, answer) of the completed turns since the last clear

vars == <<LAST_QUESTION, LAST_ANSWER, LAST_PC, LAST_COMMAND, DUMMY, environ,
          ninv, last, log>>

conv == <<LAST_QUESTION, LAST_ANSWER, LAST_PC, LAST_COMMAND>>

KeyNames == {"ANTHROPIC_API_KEY", "OPENAI_API_KEY"}

\* the value os.environ holds for a credential that is set
secret(name) == <<"secret of", name>>

\* mutant: every model is given the OpenAI credential
get_api_key_openai_only(model) ==
  IF "OPENAI_API_KEY" \in environ THEN Ok(secret("OPENAI_API_KEY"))
  ELSE Raise("KeyError")

get_api_key(model) ==
  IF startswith(model, "claude")
  THEN IF "ANTHROPIC_API_KEY" \in environ
       THEN Ok(secret("ANTHROPIC_API_KEY")) ELSE Raise("KeyError")
  ELSE IF "OPENAI_API_KEY" \in environ
       THEN Ok(secret("OPENAI_API_KEY")) ELSE Raise("KeyError")

\* ------------------------------------------------------- the host debugger
\* The debugger is an input of an invocation: a function from the command
\* given to gdb.execute to what the call does, Ok(output) or Raise(exception).
\* the phrase tested at lines 150 and 158
SENTINEL == "No symbol table info available"

ContextCommands ==
  <<"x/16i $pc", "info registers", "info registers eflags", "x/16xg $sp",
    "bt", "info args", "list *$pc">>

GdbCommands == {ContextCommands[i] : i \in 1..Len(ContextCommands)} \cup Commands

Min(a, b) == IF a < b THEN a ELSE b

\* re.search(r"\[(.*)\]", flags).group(1); the search failing raises, and the
\* handler keeps the whole line
bracketed(flags) ==
  LET opens == {i \in 1..Len(flags) : flags[i] = "["}
      first == CHOOSE i \in opens : \A j \in opens : i <= j
      closes == {i \in 1..Len(flags) : flags[i] = "]" /\ opens # {} /\ i > first}
      lastc == CHOOSE i \in closes : \A j \in closes : j <= i
  IN IF opens = {} \/ closes = {} THEN flags
     ELSE SubSeq(flags, first + 1, lastc - 1)

\* the first call of build_context_prompt_body that ends it with an exception
\* (0: none).  Only the eflags read (any Exception) and the source listing
\* (gdb.error) are guarded.
first_fatal(gdb) ==
  LET fatal(i) ==
        /\ ~gdb[ContextCommands[i]].ok
        /\ CASE i = 3 -> gdb[ContextCommands[i]].exc = "KeyboardInterrupt"
             [] i = 7 -> gdb[ContextCommands[i]].exc # "gdb.error"
             [] OTHER -> TRUE
      bad == {i \in 1..Len(ContextCommands) : fatal(i)}
  IN IF bad = {} THEN 0 ELSE CHOOSE i \in bad : \A j \in bad : i <= j

\* mutant: the assembly section is emitted even when it is empty
build_context_prompt_body_noguard(gdb) ==
  [result |-> Ok(<<"Consider the following context in the GDB debugger:\n",
                   "These are the next assembly instructions to be executed:\n\n~~~\n",
                   "\n~~~\n\n">>),
   ran |-> ContextCommands, printed |-> <<>>]

build_context_prompt_body(gdb) ==
  LET f == first_fatal(gdb)
      out(i) == IF gdb[ContextCommands[i]].ok THEN gdb[ContextCommands[i]].val ELSE <<>>
      asm == out(1)
      regs == out(2)
      flags == IF out(3) # <<>> THEN bracketed(out(3)) ELSE <<>>
      stack == out(4)
      trace == out(5)
      args == out(6)
      source == out(7)
      prompt ==
        <<"Consider the following context in the GDB debugger:\n">>
        \o (IF asm # <<>>
            THEN <<"These are the next assembly instructions to be executed:\n\n~~~\n">>
                 \o asm \o <<"\n~~~\n\n">>
            ELSE <<>>)
        \o (IF regs # <<>>
            THEN <<"Here are the registers, '*' indicates a recent change:\n\n~~~\n">>
                 \o regs \o <<"\n~~~\n\n">>
            ELSE <<>>)
        \o (IF flags # <<>>
            THEN <<"The flags ">> \o flags \o <<" are set.\n\n">>
            ELSE <<>>)
        \o (IF stack # <<>>
            THEN <<"Here is the stack:\n\n~~~\n">> \o stack \o <<"\n~~~\n\n">>
            ELSE <<>>)
        \o (IF trace # <<>>
            THEN <<"Here is the backtrace:\n\n~~~\n">> \o trace \o <<"\n~~~\n">>
            ELSE <<>>)
        \o (IF args # <<>> /\ ~contains(args, SENTINEL)
            THEN <<"Here are the function arguments:\n\n~~~\n">> \o args \o <<"\n~~~\n">>
            ELSE <<>>)
        \o (IF source # <<>>
            THEN <<"Here is the source code near the current instruction:\n\n~~~\n">>
                 \o source \o <<"\n~~~\n">>
            ELSE <<>>)
  IN IF f # 0
     THEN [result |-> Raise(gdb[ContextCommands[f]].exc),
           ran |-> SubSeq(ContextCommands, 1, f), printed |-> <<>>]
     ELSE [result |-> Ok(strip_colors(prompt)),
           ran |-> ContextCommands, printed |-> <<>>]

build_command_prompt_body(command, gdb) ==
  LET output == gdb[command]
      prompt ==
        <<"Running the command '", command,
          "' in the GDB debugger yields the following output:\n">>
        \o <<"\n~~~\n">> \o output.val \o <<"\n~~~\n\n">>
  IN IF ~output.ok
     THEN [result |-> Raise(output.exc), ran |-> <<command>>, printed |-> <<>>]
     ELSE [result |-> Ok(strip_colors(prompt)), ran |-> <<command>>,
           printed |-> <<output.val>>]

\* ----------------------------------------------------------------- prompts
INTRO == "You are G-3PO, a charming and clever debugging assistant ..."

msg(role, content) == [role |-> role, content |-> content]

\* zip(LAST_QUESTION, LAST_ANSWER)
zip(questions, answers) ==
  [i \in 1..Min(Len(questions), Len(answers)) |-> <<questions[i], answers[i]>>]

\* mutant: the retained turns are embedded newest first
RECURSIVE turn_messages_reversed(_)
turn_messages_reversed(turns) ==
  IF turns = <<>> THEN <<>>
  ELSE turn_messages_reversed(Tail(turns))
       \o <<msg("user", turns[1][1]), msg("assistant", turns[1][2])>>

RECURSIVE turn_messages(_)
turn_messages(turns) ==
  IF turns = <<>> THEN <<>>
  ELSE <<msg("user", turns[1][1]), msg("assistant", turns[1][2])>>
       \o turn_messages(Tail(turns))

\* build_prompt, given the retained turns at the time of the call
build_prompt(question, command, questions, answers, gdb) ==
  LET b == IF command # None THEN build_command_prompt_body(command, gdb)
           ELSE build_context_prompt_body(gdb)
      conversation ==
        <<msg("system", <<INTRO>>), msg("system", b.result.val)>>
        \o turn_messages(zip(questions, answers))
        \o <<msg("user", question)>>
  IN [result |-> IF b.result.ok THEN Ok(conversation) ELSE b.result,
      ran |-> b.ran, printed |-> b.printed]

RECURSIVE flatten_prompt(_)
flatten_prompt(conversation) ==
  IF conversation = <<>> THEN <<"\n\nAssistant: ">>
  ELSE LET m == conversation[1]
           tag == CASE m.role = "user" -> "\n\nHuman: "
                    [] m.role = "assistant" -> "\n\nAssistant: "
                    [] m.role = "system" -> "\n\nSystem: "
       IN <<tag>> \o m.content \o flatten_prompt(Tail(conversation))

\* ------------------------------------------------------------ model client
CHAT_URL == "https://api.openai.com/v1/chat/completions"
COMPLETIONS_URL == "https://api.openai.com/v1/completions"
ANTHROPIC_URL == "https://api.anthropic.com/v1/complete"

\* A prompt is a list of messages or one string; type(prompt) is kept as a tag.
as_list(conversation) == [type |-> "list", val |-> conversation]
as_str(text) == [type |-> "str", val |-> text]

\* The network is an input of an invocation: Raise(exception) when the
\* request or the decoding of its answer fails, else Ok(payload), the payload
\* a JSON object given as a record of the keys it holds.
has(payload, key) == key \in DOMAIN payload

\* the usage line printed under show_usage=True
usage_line(prompt, res) ==
  IF ~has(res, "usage") THEN Raise("KeyError")
  ELSE IF res.usage.prompt_tokens = 0 THEN Raise("ZeroDivisionError")
  ELSE Ok(<<"prompt characters: ...">>)

\* the failure both OpenAI transports raise for a payload without choices
no_choices(res) ==
  IF has(res, "error")
  THEN RaiseMsg("Exception", <<res.error.message, ": ", res.error.type>>)
  ELSE RaiseMsg("Exception", <<"payload">>)

\* mutant: a request that is not answered with choices is sent a second time
query_openai_chat_retry(prompt, model, max_tokens, temperature, api_key, net) ==
  LET request ==
        [method |-> "POST", url |-> CHAT_URL,
         credential |-> [how |-> "auth", value |-> api_key],
         data |-> [model |-> model, max_tokens |-> max_tokens,
                   messages |-> prompt, temperature |-> temperature]]
      answered == net.ok /\ has(net.val, "choices")
  IN [result |-> IF answered THEN Ok(net.val.choices[1].message.content)
                 ELSE Raise("Exception"),
      requests |-> IF answered THEN <<request>> ELSE <<request, request>>,
      printed |-> IF answered THEN <<"usage">> ELSE <<>>]

query_openai_chat(prompt, model, max_tokens, temperature, api_key, net) ==
  LET request ==
        [method |-> "POST", url |-> CHAT_URL,
         credential |-> [how |-> "auth", value |-> api_key],
         data |-> [model |-> model, max_tokens |-> max_tokens,
                   messages |-> prompt, temperature |-> temperature]]
      res == net.val
      result ==
        IF ~net.ok THEN net
        ELSE IF ~has(res, "choices") THEN no_choices(res)
        ELSE IF ~usage_line(prompt, res).ok THEN usage_line(prompt, res)
        ELSE IF res.choices = <<>> THEN Raise("IndexError")
        ELSE IF ~has(res.choices[1], "message") THEN Raise("KeyError")
        ELSE Ok(res.choices[1].message.content)
  IN [result |-> result, requests |-> <<request>>,
      printed |-> IF result.ok THEN <<"usage">> ELSE <<>>]

query_openai_completions(prompt, model, max_tokens, temperature, api_key, net) ==
  LET request ==
        [method |-> "POST", url |-> COMPLETIONS_URL,
         credential |-> [how |-> "auth", value |-> api_key],
         data |-> [model |-> model, max_tokens |-> max_tokens,
                   prompt |-> prompt, temperature |-> temperature,
                   stop |-> <<"\n\nHuman:">>]]
      res == net.val
      result ==
        IF ~net.ok THEN net
        ELSE IF ~has(res, "choices") THEN no_choices(res)
        ELSE IF res.choices = <<>> THEN Raise("IndexError")
        ELSE IF ~has(res.choices[1], "text") THEN Raise("KeyError")
        ELSE IF ~usage_line(prompt, res).ok THEN usage_line(prompt, res)
        ELSE Ok(res.choices[1].text)
  IN [result |-> result, requests |-> <<request>>,
      printed |-> IF result.ok THEN <<"usage">> ELSE <<>>]

\* mutant: a payload without completion raises
query_anthropic_raises(prompt, model, max_tokens, temperature, api_key, net) ==
  [result |-> IF ~net.ok THEN net
              ELSE IF has(net.val, "completion") THEN Ok(strip(net.val.completion))
              ELSE Raise("Exception"),
   requests |-> <<[method |-> "POST", url |-> ANTHROPIC_URL,
                   credential |-> [how |-> "x-api-key", value |-> api_key],
                   data |-> [prompt |-> prompt, model |-> model,
                             temperature |-> temperature,
                             max_tokens_to_sample |-> max_tokens,
                             stop_sequences |-> <<"\n\nHuman:">>]]>>,
   printed |-> <<>>]

query_anthropic(prompt, model, max_tokens, temperature, api_key, net) ==
  LET request ==
        [method |-> "POST", url |-> ANTHROPIC_URL,
         credential |-> [how |-> "x-api-key", value |-> api_key],
         data |-> [prompt |-> prompt, model |-> model,
                   temperature |-> temperature,
                   max_tokens_to_sample |-> max_tokens,
                   stop_sequences |-> <<"\n\nHuman:">>]]
      data == net.val
      failed == net.ok /\ ~has(data, "completion")
      result ==
        IF ~net.ok THEN net
        ELSE IF has(data, "completion") THEN Ok(strip(data.completion))
        ELSE IF ~has(data, "detail") THEN Raise("KeyError")
        ELSE Ok(<<"Anthropic API error: ">> \o data.detail)
  IN [result |-> result, requests |-> <<request>>,
      printed |-> IF failed THEN <<"Anthropic API error">> ELSE <<>>]

\* get_openai_models, lines 291-297.  The identifiers are ordered as str
\* orders them; ID_ORDER lists the identifiers of the inputs in that order.
MODELS_URL == "https://api.openai.com/v1/models"

ID_ORDER == <<"ada", "gpt-3.5-turbo", "gpt-4", "text-davinci-003">>

rank(id) == CHOOSE i \in 1..Len(ID_ORDER) : ID_ORDER[i] = id

RECURSIVE insert(_, _)
insert(id, ids) ==
  IF ids = <<>> THEN <<id>>
  ELSE IF rank(id) <= rank(Head(ids)) THEN <<id>> \o ids
  ELSE <<Head(ids)>> \o insert(id, Tail(ids))

RECURSIVE sorted(_)
sorted(ids) == IF ids = <<>> THEN <<>> ELSE insert(Head(ids), sorted(Tail(ids)))

get_openai_models(api_key, net) ==
  LET request == [method |-> "GET", url |-> MODELS_URL,
                  credential |-> [how |-> "auth", value |-> api_key]]
      res == net.val
      result ==
        IF ~net.ok THEN net
        ELSE IF ~has(res, "data") THEN Raise("KeyError")
        ELSE IF \E i \in 1..Len(res.data) : ~has(res.data[i], "id") THEN Raise("KeyError")
        ELSE Ok(sorted([i \in 1..Len(res.data) |-> res.data[i].id]))
  IN [result |-> result, requests |-> <<request>>, printed |-> <<>>]

\* str(prompt) inside the dummy answer
RECURSIVE repr(_)
repr(conversation) ==
  IF conversation = <<>> THEN <<>>
  ELSE <<"{role: ", conversation[1].role, ", content: ">>
       \o conversation[1].content \o <<"}">> \o repr(Tail(conversation))

dummy_response(prompt, model, max_tokens, temperature) ==
  <<"This is a dummy response for unit testing purposes.\nmodel = ">>
  \o model
  \o <<", max_tokens = ", ToString(max_tokens), ", temperature = ", temperature,
       "\n\nPrompt:\n\n">>
  \o (IF prompt.type = "list" THEN <<"[">> \o repr(prompt.val) \o <<"]">>
      ELSE prompt.val)

\* mutant: the dummy answer also echoes the credential
query_dummy_keyed(prompt, model, max_tokens, temperature, api_key, net) ==
  [result |-> Ok(dummy_response(prompt, model, max_tokens, temperature) \o api_key),
   requests |-> <<>>, printed |-> <<>>]

\* mutant: the alternate vendor is tested before the chat models
query_claude_first(prompt, model, max_tokens, temperature, api_key, net) ==
  IF DUMMY
  THEN [result |-> Ok(dummy_response(prompt, model, max_tokens, temperature)),
        requests |-> <<>>, printed |-> <<>>]
  ELSE IF startswith(model, "claude")
  THEN query_anthropic(IF prompt.type = "list" THEN as_str(flatten_prompt(prompt.val))
                       ELSE prompt,
                       model, max_tokens, temperature, api_key, net)
  ELSE IF contains(model, "turbo") \/ startswith(model, "gpt-4")
  THEN query_openai_chat(IF prompt.type = "str"
                         THEN as_list(<<msg("user", prompt.val)>>) ELSE prompt,
                         model, max_tokens, temperature, api_key, net)
  ELSE query_openai_completions(
         IF prompt.type = "list" THEN as_str(flatten_prompt(prompt.val)) ELSE prompt,
         model, max_tokens, temperature, api_key, net)

query(prompt, model, max_tokens, temperature, api_key, net) ==
  IF DUMMY
  THEN [result |-> Ok(dummy_response(prompt, model, max_tokens, temperature)),
        requests |-> <<>>, printed |-> <<>>]
  ELSE IF contains(model, "turbo") \/ startswith(model, "gpt-4")
  THEN query_openai_chat(IF prompt.type = "str"
                         THEN as_list(<<msg("user", prompt.val)>>) ELSE prompt,
                         model, max_tokens, temperature, api_key, net)
  ELSE IF startswith(model, "claude")
  THEN query_anthropic(IF prompt.type = "list" THEN as_str(flatten_prompt(prompt.val))
                       ELSE prompt,
                       model, max_tokens, temperature, api_key, net)
  ELSE query_openai_completions(
         IF prompt.type = "list" THEN as_str(flatten_prompt(prompt.val)) ELSE prompt,
         model, max_tokens, temperature, api_key, net)

\* --------------------------------------------------------------- the command
\* mutant: the location is left out of the test that clears the turns
decide_command_only(current_pc, requested, last_pc, last_command) ==
  LET carry == current_pc = last_pc /\ requested = None
      command == IF carry THEN last_command ELSE requested
      stored == IF carry THEN last_command ELSE requested
  IN [command |-> command, LAST_COMMAND |-> stored, clear |-> (stored # command)]

\* mutant: the stored command is never carried forward
decide_no_carry(current_pc, requested, last_pc, last_command) ==
  [command |-> requested, LAST_COMMAND |-> requested,
   clear |-> (last_pc # current_pc)]

\* mutant: the stored command is always the requested one
decide_store_requested(current_pc, requested, last_pc, last_command) ==
  LET carry == current_pc = last_pc /\ requested = None
      command == IF carry THEN last_command ELSE requested
  IN [command |-> command, LAST_COMMAND |-> requested,
      clear |-> (last_pc # current_pc)]

\* mutant: the stored command is left as it was
decide_keep_stored(current_pc, requested, last_pc, last_command) ==
  LET carry == current_pc = last_pc /\ requested = None
      command == IF carry THEN last_command ELSE requested
  IN [command |-> command, LAST_COMMAND |-> last_command,
      clear |-> (last_pc # current_pc)]

\* lines 359-363: the effective command, the stored command, and whether the
\* retained turns are cleared
decide(current_pc, requested, last_pc, last_command) ==
  LET carry == current_pc = last_pc /\ requested = None
      command == IF carry THEN last_command ELSE requested
      stored == IF carry THEN last_command ELSE requested
  IN [command |-> command, LAST_COMMAND |-> stored,
      clear |-> (last_pc # current_pc \/ stored # command)]

\* mutant: nothing is evicted
record_turn_no_evict(questions, answers, question, answer) ==
  [LAST_QUESTION |-> Append(questions, question),
   LAST_ANSWER |-> Append(answers, answer)]

\* mutant: the newest turn is evicted, pop() for pop(0)
record_turn_pop_newest(questions, answers, question, answer) ==
  IF Len(questions) + 1 > HISTORY_LENGTH
  THEN [LAST_QUESTION |-> questions, LAST_ANSWER |-> answers]
  ELSE [LAST_QUESTION |-> Append(questions, question),
        LAST_ANSWER |-> Append(answers, answer)]

\* mutant: the answer is not appended
record_turn_question_only(questions, answers, question, answer) ==
  [LAST_QUESTION |-> Append(questions, question), LAST_ANSWER |-> answers]

\* lines 371-376, the two lists
record_turn(questions, answers, question, answer) ==
  LET qs == Append(questions, question)
      as == Append(answers, answer)
  IN IF Len(qs) > HISTORY_LENGTH
     THEN [LAST_QUESTION |-> Tail(qs), LAST_ANSWER |-> Tail(as)]
     ELSE [LAST_QUESTION |-> qs, LAST_ANSWER |-> as]

ConversationState ==
  [LAST_QUESTION |-> LAST_QUESTION, LAST_ANSWER |-> LAST_ANSWER,
   LAST_PC |-> LAST_PC, LAST_COMMAND |-> LAST_COMMAND]

\* a result that was not computed
unraised == [ok |-> FALSE, exc |-> "", msg |-> <<>>]

\* the observation of an invocation that has done nothing yet
started(n, at, argv) ==
  [n |-> n, at |-> at, argv |-> argv,
   stage |-> "credential",   \* how far it got: credential, prompt, query, done
   exc |-> "",               \* the exception that ended it, if one did
   read |-> "unread",        \* the program location it read
   eff |-> "undecided",      \* its effective command
   clear |-> FALSE,          \* whether it cleared the retained turns
   pre |-> ConversationState,
   window |-> <<>>,          \* the retained turns build_prompt was given
   prompt |-> <<>>,          \* the conversation build_prompt returned
   ran |-> <<>>,             \* the commands given to gdb.execute
   requests |-> <<>>,        \* the network requests issued
   response |-> [ok |-> FALSE, exc |-> "unused", msg |-> <<>>],
   answer |-> <<>>,
   printed |-> <<>>]

\* AI.do_invoke, lines 332-378.  argv: the parsed arguments; at: where the
\* inferior is stopped; gdb, net: what the debugger and the network answer.
\* (Each intermediate value is bound once, as the one element of a set.)
do_invoke(argv, at, gdb, net) ==
  \E inv \in {started(ninv + 1, at, argv)}, key \in {get_api_key(argv.model)},
     question \in {join(argv.question)}, current_pc \in {at} :
  \E d \in {decide(current_pc, argv.command, LAST_PC, LAST_COMMAND)} :
  \E questions \in {IF d.clear THEN <<>> ELSE LAST_QUESTION},
     answers \in {IF d.clear THEN <<>> ELSE LAST_ANSWER} :
  \E built \in {IF key.ok
                THEN build_prompt(question, d.command, questions, answers, gdb)
                ELSE [result |-> unraised, ran |-> <<>>, printed |-> <<>>]} :
  \E q \in {IF key.ok /\ built.result.ok
            THEN query(as_list(built.result.val), argv.model, argv.max_tokens,
                       argv.temperature, key.val, net)
            ELSE [result |-> unraised, requests |-> <<>>, printed |-> <<>>]} :
  \E answer \in {IF q.result.ok THEN strip(q.result.val) ELSE <<>>} :
  \E t \in {record_turn(questions, answers, question, answer)},
     decided \in {[inv EXCEPT !.read = current_pc, !.eff = d.command,
                              !.clear = d.clear,
                              !.window = zip(questions, answers),
                              !.ran = <<"info reg $pc">> \o built.ran,
                              !.printed = built.printed]} :
  \E asked \in {[decided EXCEPT !.prompt = IF built.result.ok
                                           THEN built.result.val ELSE <<>>,
                                !.requests = q.requests,
                                !.response = IF q.requests = <<>> THEN inv.response
                                             ELSE net,
                                !.printed = built.printed \o q.printed]} :
     /\ ninv' = ninv + 1
     /\ UNCHANGED <<DUMMY, environ>>
     /\ IF ~key.ok
        THEN \* lines 351-354: the credential is missing
             /\ UNCHANGED <<conv, log>>
             /\ last' = [inv EXCEPT !.printed = <<"you must set the API key">>]
        ELSE /\ LAST_COMMAND' = d.LAST_COMMAND
             /\ IF ~built.result.ok
                THEN \* line 367 raises
                     /\ LAST_QUESTION' = questions
                     /\ LAST_ANSWER' = answers
                     /\ UNCHANGED LAST_PC
                     /\ log' = IF d.clear THEN <<>> ELSE log
                     /\ last' = [decided EXCEPT !.stage = "prompt",
                                                !.exc = built.result.exc]
                ELSE IF ~q.result.ok
                THEN \* line 370 raises
                     /\ LAST_QUESTION' = questions
                     /\ LAST_ANSWER' = answers
                     /\ UNCHANGED LAST_PC
                     /\ log' = IF d.clear THEN <<>> ELSE log
                     /\ last' = [asked EXCEPT !.stage = "query",
                                              !.exc = q.result.exc]
                ELSE \* lines 371-378
                     /\ LAST_QUESTION' = t.LAST_QUESTION
                     /\ LAST_ANSWER' = t.LAST_ANSWER
                     /\ LAST_PC' = current_pc
                     /\ log' = Append(IF d.clear THEN <<>> ELSE log,
                                      <<question, answer>>)
                     /\ last' = [asked EXCEPT !.stage = "done",
                                              !.answer = answer,
                                              !.printed = asked.printed \o <<answer>>]

set_dummy_mode(d) ==
  /\ DUMMY' = d
  /\ UNCHANGED <<conv, environ, ninv, last, log>>

\* ------------------------------------------------------------------ inputs
\* a debugger that answers every command
gdb_ok ==
  [c \in GdbCommands |->
     CASE c = "x/16i $pc" -> Ok(<<"ANSI", "=> mov eax, 1", "ANSI">>)
       [] c = "info registers" -> Ok(<<"rax 0x0">>)
       [] c = "info registers eflags" -> Ok(<<"eflags 0x246", "[", "ZF PF", "]">>)
       [] c = "x/16xg $sp" -> Ok(<<"0x7ffe0000: 0x1">>)
       [] c = "bt" -> Ok(<<"#0 main ()">>)
       [] c = "info args" -> Ok(<<"No symbol table info available", ".">>)
       [] c = "list *$pc" -> Raise("gdb.error")
       [] OTHER -> Ok(<<"ANSI", "output of ", c>>)]

\* a debugger that cannot read memory, nor run the auxiliary commands
gdb_failing ==
  [c \in GdbCommands |->
     IF c \in Commands \cup {"x/16i $pc", "x/16xg $sp"}
     THEN Raise("gdb.error") ELSE gdb_ok[c]]

Gdbs == {gdb_ok, gdb_failing}

TEXT == <<"SP", "It moves 1 into eax.", "SP">>
USAGE == [prompt_tokens |-> 12, completion_tokens |-> 3, total_tokens |-> 15]

chat_payload(text) ==
  [choices |-> <<[message |-> [role |-> "assistant", content |-> text]]>>,
   usage |-> USAGE]
text_payload(text) == [choices |-> <<[text |-> text]>>, usage |-> USAGE]
error_payload ==
  [error |-> [message |-> "Incorrect API key provided",
              type |-> "invalid_request_error"]]
completion_payload(text) == [completion |-> text]
detail_payload == [detail |-> <<"Invalid API Key">>]

unused == [ok |-> FALSE, exc |-> "unused", msg |-> <<>>]

\* Inputs the handler does not consult are not enumerated: the debugger when
\* the credential is missing, the network when no request is sent.
GdbsFor(argv, gdbs) == IF get_api_key(argv.model).ok THEN gdbs ELSE {gdb_ok}

NetsFor(argv, at, gdb, nets) ==
  IF /\ get_api_key(argv.model).ok
     /\ ~DUMMY
     /\ build_prompt(<<>>, decide(at, argv.command, LAST_PC, LAST_COMMAND).command,
                     <<>>, <<>>, gdb).result.ok
  THEN nets ELSE {unused}

Invocations(argvs, gdbs, nets) ==
  \E argv \in argvs, at \in Locations :
    \E gdb \in GdbsFor(argv, gdbs) :
      \E net \in NetsFor(argv, at, gdb, nets) :
        do_invoke(argv, at, gdb, net)

\* --------------------------------------------------------- specification
\* Spec: the command with the chat and the alternate-vendor model, every
\* credential setting, a debugger that answers or fails, and a network that
\* answers well, answers with an error, or fails.
Questions == {<<"what", "next?">>}

Argvs ==
  [question : Questions, model : {GPT35_TURBO, CLAUDE_V1}, temperature : {"0.5"},
   max_tokens : {100}, verbose : {FALSE}, command : Commands \cup {None},
   list_models : {FALSE}]

Nets ==
  {Raise("ConnectionError"), Ok(chat_payload(TEXT)), Ok(error_payload),
   Ok(completion_payload(TEXT)), Ok(detail_payload)}

Init ==
  /\ LAST_QUESTION = <<>>
  /\ LAST_ANSWER = <<>>
  /\ LAST_PC = None
  /\ LAST_COMMAND = None
  /\ DUMMY = FALSE
  /\ environ \in SUBSET KeyNames
  /\ ninv = 0
  /\ last = [started(0, None, None) EXCEPT !.stage = "none"]
  /\ log = <<>>

Invoke ==
  /\ ninv < MaxInvocations
  /\ Invocations(Argvs, Gdbs, Nets)

Next == Invoke

Spec == Init /\ [][Next]_vars

\* SpecWindow: long conversations.  Both credentials are set, the chat model
\* is asked about the context or about one auxiliary command, every question
\* and every answer is a fresh text, and dummy mode is switched on and off.
ArgvsWindow(n) ==
  [question : {<<"question", ToString(n)>>}, model : {GPT35_TURBO},
   temperature : {"0.5"}, max_tokens : {100}, verbose : {FALSE},
   command : {None, "info frame"}, list_models : {FALSE}]

NetsWindow(n) ==
  {Ok(chat_payload(<<"SP", "answer", ToString(n), "SP">>)), Ok(error_payload)}

InitWindow ==
  /\ LAST_QUESTION = <<>>
  /\ LAST_ANSWER = <<>>
  /\ LAST_PC = None
  /\ LAST_COMMAND = None
  /\ DUMMY = FALSE
  /\ environ = KeyNames
  /\ ninv = 0
  /\ last = [started(0, None, None) EXCEPT !.stage = "none"]
  /\ log = <<>>

InvokeWindow ==
  /\ ninv < MaxTurns
  /\ Invocations(ArgvsWindow(ninv + 1), Gdbs, NetsWindow(ninv + 1))

SetDummy == \E d \in BOOLEAN : set_dummy_mode(d)

NextWindow == InvokeWindow \/ SetDummy

SpecWindow == InitWindow /\ [][NextWindow]_vars

\* SpecQuery: query called on its own, with every model name, a prompt in
\* either form, every network answer, and dummy mode on or off.
PromptsQuery ==
  {as_list(<<msg("system", <<INTRO>>), msg("system", <<"body">>),
             msg("user", <<"why?">>)>>),
   as_list(<<msg("system", <<INTRO>>), msg("system", <<"body">>),
             msg("user", <<"why?">>), msg("assistant", <<"because">>),
             msg("user", <<"really?">>)>>),
   as_str(<<"why?">>)}

NetsQuery == Nets \cup {Ok(text_payload(TEXT))}

\* In SpecQuery log keeps the first call that was made in dummy mode.
call_query(prompt, model, max_tokens, temperature, api_key, net) ==
  \E call \in {[fn |-> "query", dummy |-> DUMMY, prompt |-> prompt, model |-> model,
                 max_tokens |-> max_tokens, temperature |-> temperature,
                 api_key |-> api_key, net |-> net,
                 out |-> query(prompt, model, max_tokens, temperature, api_key, net)]} :
    /\ last' = call
    /\ log' = IF DUMMY /\ log = <<>> THEN <<call>> ELSE log
    /\ UNCHANGED <<conv, DUMMY, environ, ninv>>

InitQuery ==
  /\ LAST_QUESTION = <<>>
  /\ LAST_ANSWER = <<>>
  /\ LAST_PC = None
  /\ LAST_COMMAND = None
  /\ DUMMY = FALSE
  /\ environ = KeyNames
  /\ ninv = 0
  /\ last = [fn |-> "none"]
  /\ log = <<>>

CallQuery ==
  \E prompt \in PromptsQuery, model \in ModelNames, name \in KeyNames :
    \E net \in (IF DUMMY THEN {unused} ELSE NetsQuery) :
      call_query(prompt, model, 100, "0.5", secret(name), net)

NextQuery == CallQuery \/ SetDummy

SpecQuery == InitQuery /\ [][NextQuery]_vars

\* SpecList: the command with and without -L (--list-models), the chat
\* model, every credential setting.
MaxListInvocations == 2

models_payload == [data |-> <<[id |-> "gpt-4"], [id |-> "ada"], [id |-> "gpt-3.5-turbo"]>>]

ArgvsList ==
  [question : Questions, model : {GPT35_TURBO}, temperature : {"0.5"},
   max_tokens : {100}, verbose : {FALSE}, command : {None, "info frame"},
   list_models : BOOLEAN]

NetsList == {Ok(chat_payload(TEXT)), Ok(error_payload), Ok(models_payload)}

InvokeList ==
  /\ ninv < MaxListInvocations
  /\ Invocations(ArgvsList, Gdbs, NetsList)

NextList == InvokeList

SpecList == Init /\ [][NextList]_vars

\* SpecBody: build_context_prompt_body called on its own.  The answers of
\* the debugger are drawn at the start: each context command gives a text,
\* gives nothing, or raises.
AnswersBody ==
  [c \in GdbCommands |->
     CASE c = "x/16i $pc" ->
            {gdb_ok[c], Ok(<<>>), Raise("gdb.error")}
       [] c = "info registers" ->
            {gdb_ok[c], Ok(<<>>), Raise("gdb.error")}
       [] c = "info registers eflags" ->
            {gdb_ok[c], Ok(<<"eflags 0x246">>), Ok(<<>>), Raise("gdb.error")}
       [] c = "x/16xg $sp" ->
            {gdb_ok[c], Ok(<<>>)}
       [] c = "bt" ->
            {gdb_ok[c], Ok(<<>>), Raise("gdb.error")}
       [] c = "info args" ->
            {Ok(<<"argc = 1">>), Ok(<<SENTINEL, ".">>), Ok(<<>>)}
       [] c = "list *$pc" ->
            {Ok(<<"ANSI", "12  puts(msg);">>), Ok(<<"12  puts(\"", SENTINEL, "\");">>),
             Ok(<<>>), Raise("gdb.error")}
       [] OTHER -> {gdb_ok[c]}]

GdbsBody ==
  {[c \in GdbCommands |->
      CASE c = "x/16i $pc" -> asm
        [] c = "info registers" -> regs
        [] c = "info registers eflags" -> flags
        [] c = "x/16xg $sp" -> stack
        [] c = "bt" -> trace
        [] c = "info args" -> args
        [] c = "list *$pc" -> source
        [] OTHER -> gdb_ok[c]] :
     asm \in AnswersBody["x/16i $pc"], regs \in AnswersBody["info registers"],
     flags \in AnswersBody["info registers eflags"],
     stack \in AnswersBody["x/16xg $sp"], trace \in AnswersBody["bt"],
     args \in AnswersBody["info args"], source \in AnswersBody["list *$pc"]}

InitBody ==
  /\ LAST_QUESTION = <<>>
  /\ LAST_ANSWER = <<>>
  /\ LAST_PC = None
  /\ LAST_COMMAND = None
  /\ DUMMY = FALSE
  /\ environ = KeyNames
  /\ ninv = 0
  /\ last \in {[fn |-> "input", gdb |-> gdb] : gdb \in GdbsBody}
  /\ log = <<>>

BuildBody ==
  /\ last.fn = "input"
  /\ last' = [fn |-> "build_context_prompt_body", gdb |-> last.gdb,
              out |-> build_context_prompt_body(last.gdb)]
  /\ UNCHANGED <<conv, DUMMY, environ, ninv, log>>

NextBody == BuildBody

SpecBody == InitBody /\ [][NextBody]_vars

\* ================================================================== claims

\* C1 (as amended): of two consecutive invocations N and N+1, if N read the
\* program location and N+1 reads a different one, the turns build_prompt is
\* given at N+1 are none, and the prompt it returns has three messages.
C1_ResetOnLocationChange ==
  [][(/\ last'.n = last.n + 1
      /\ last.read # "unread"
      /\ last'.read # "unread"
      /\ last'.read # last.read)
     => (/\ last'.window = <<>>
         /\ (last'.prompt # <<>> => Len(last'.prompt) = 3))]_vars

\* C1 witness: the second invocation completes at another location than the
\* first, which had left a turn.
C1_Witness ==
  /\ last.n = 2
  /\ last.stage = "done"
  /\ last.pre.LAST_QUESTION # <<>>
  /\ last.read # last.pre.LAST_PC
  /\ last.window = <<>>

\* C1 (as claimed): of any two consecutive invocations, if the location read
\* at N+1 differs from where the program was at N, the turns build_prompt is
\* given at N+1 are none.
C1_ResetAfterAnyInvocation ==
  [][(/\ last'.n = last.n + 1
      /\ last.n >= 1
      /\ last'.read # "unread"
      /\ last'.read # last.at)
     => last'.window = <<>>]_vars

\* C2 (as claimed): an invocation whose effective command differs from the
\* command stored before it builds its prompt with no prior turns.
C2_ClearedOnCommandChange ==
  (last.read # "unread" /\ last.eff # last.pre.LAST_COMMAND)
  => last.window = <<>>

\* C3 (as amended): when invocation N completed its round trip, invocation
\* N+1 has N's effective command if it reads N's location and gives no
\* command, and the requested command otherwise.
C3_CarryForward ==
  [][(/\ last'.n = last.n + 1
      /\ last.stage = "done"
      /\ last'.read # "unread")
     => (IF last'.read = last.read /\ last'.argv.command = None
         THEN last'.eff = last.eff
         ELSE last'.eff = last'.argv.command)]_vars

\* C3 witness: an invocation without -c that ran the command carried forward.
C3_Witness ==
  /\ last.n >= 2
  /\ last.stage = "done"
  /\ last.argv.command = None
  /\ last.eff \in Commands
  /\ last.read = last.pre.LAST_PC

\* C3 (as claimed): the same of any invocation N that read the location,
\* whether or not it completed.
C3_CarryForwardAfterAnyInvocation ==
  [][(/\ last'.n = last.n + 1
      /\ last.read # "unread"
      /\ last'.read # "unread")
     => (IF last'.read = last.read /\ last'.argv.command = None
         THEN last'.eff = last.eff
         ELSE last'.eff = last'.argv.command)]_vars

\* C4: after any invocation at most HISTORY_LENGTH turns are retained, and a
\* prompt embeds at most HISTORY_LENGTH prior question/answer pairs.
C4_WindowBound ==
  /\ Len(LAST_QUESTION) <= HISTORY_LENGTH
  /\ Len(LAST_ANSWER) <= HISTORY_LENGTH
  /\ Len(last.window) <= HISTORY_LENGTH
  /\ Len(last.prompt) <= 3 + 2 * HISTORY_LENGTH

\* C4 witness: a turn is appended to a full window.
C4_Witness ==
  /\ last.stage = "done"
  /\ Len(last.window) = HISTORY_LENGTH
  /\ Len(LAST_QUESTION) = HISTORY_LENGTH

\* C5: the retained turns are the last min(k, HISTORY_LENGTH) of the k turns
\* completed since the last clear, oldest first, each question with the
\* answer given to it.
C5_WindowContents ==
  LET k == Min(Len(log), HISTORY_LENGTH)
  IN /\ Len(LAST_QUESTION) = k
     /\ Len(LAST_ANSWER) = k
     /\ \A i \in 1..k :
          <<LAST_QUESTION[i], LAST_ANSWER[i]>> = log[Len(log) - k + i]

\* C5 witness: more turns were completed since the last clear than are kept.
C5_Witness ==
  /\ Len(log) > HISTORY_LENGTH
  /\ LAST_QUESTION[1] = log[Len(log) - HISTORY_LENGTH + 1][1]
  /\ LAST_QUESTION[1] # log[1][1]

\* C6 (as claimed): an invocation that aborts leaves the retained turns, the
\* stored location and the stored command as they were when it started.
C6_AbortLeavesStateUnmutated ==
  last.stage \in {"credential", "prompt", "query"}
  => ConversationState = last.pre

\* C7: when the credential the model name requires is not set, the
\* invocation reports it and returns, raising nothing, sending nothing,
\* running no debugger command and changing none of the four globals.
C7_MissingCredential ==
  LET required == IF last.argv.model[1] = "claude" THEN "ANTHROPIC_API_KEY"
                  ELSE "OPENAI_API_KEY"
  IN (last.n >= 1 /\ required \notin environ)
     => (/\ last.stage = "credential"
         /\ last.exc = ""
         /\ last.printed # <<>>
         /\ last.requests = <<>>
         /\ last.ran = <<>>
         /\ ConversationState = last.pre)

\* C7 witness: a claude model is asked without the Anthropic credential,
\* after a turn was retained.
C7_Witness ==
  /\ last.n >= 2
  /\ last.argv.model = CLAUDE_V1
  /\ "ANTHROPIC_API_KEY" \notin environ
  /\ last.stage = "credential"
  /\ LAST_QUESTION # <<>>

\* C8: the conversation build_prompt returns for n retained turns has 3 + 2n
\* messages: the persona, the body, each turn oldest first as a user and an
\* assistant message, and the new question; the retained turns are the same
\* after the call.
C8_PromptShape ==
  LET n == Len(last.window)
      p == last.prompt
      body == IF last.eff = None THEN build_context_prompt_body(gdb_ok)
              ELSE build_command_prompt_body(last.eff, gdb_ok)
  IN /\ p # <<>> =>
          /\ Len(p) = 3 + 2 * n
          /\ p[1] = [role |-> "system", content |-> <<INTRO>>]
          /\ p[2] = [role |-> "system", content |-> body.result.val]
          /\ \A i \in 1..n :
               /\ p[2 * i + 1] = [role |-> "user", content |-> last.window[i][1]]
               /\ p[2 * i + 2] = [role |-> "assistant", content |-> last.window[i][2]]
          /\ p[3 + 2 * n] = [role |-> "user", content |-> join(last.argv.question)]
     /\ last.stage \in {"prompt", "query"} =>
          /\ Len(LAST_QUESTION) = n
          /\ \A i \in 1..n : <<LAST_QUESTION[i], LAST_ANSWER[i]>> = last.window[i]

\* C8 witness: a prompt built on a full window.
C8_Witness ==
  /\ last.prompt # <<>>
  /\ Len(last.window) = HISTORY_LENGTH
  /\ last.window[1] # last.window[2]

\* C9: with dummy mode off, query sends one request, to the chat endpoint for
\* a name holding "turbo" or starting with "gpt-4", else to the alternate
\* vendor for a name starting with "claude", else to the completions
\* endpoint; the chat endpoint is given messages, the others one string.
C9_Dispatch ==
  (last.fn = "query" /\ ~last.dummy) =>
    /\ Len(last.out.requests) = 1
    /\ LET r == last.out.requests[1]
           m == last.model
           turbo == \E i \in 1..Len(m) : m[i] = "turbo"
       IN /\ r.url = (IF turbo \/ m[1] = "gpt-4" THEN CHAT_URL
                      ELSE IF m[1] = "claude" THEN ANTHROPIC_URL
                      ELSE COMPLETIONS_URL)
          /\ IF r.url = CHAT_URL
             THEN /\ r.data.messages.type = "list"
                  /\ last.prompt.type = "list" => r.data.messages = last.prompt
             ELSE /\ r.data.prompt.type = "str"
                  /\ last.prompt.type = "list" =>
                       /\ r.data.prompt.val[1] = "\n\nSystem: "
                       /\ r.data.prompt.val[Len(r.data.prompt.val)] = "\n\nAssistant: "
                       /\ r.data.prompt.val = flatten_prompt(last.prompt.val)

\* C9 witness: a name that starts with "claude" and holds "turbo" goes to the
\* chat endpoint.
C9_Witness ==
  /\ last.fn = "query"
  /\ ~last.dummy
  /\ last.model = CLAUDE_TURBO
  /\ last.prompt.type = "list"
  /\ last.out.requests[1].url = CHAT_URL

\* C10 (as claimed): whenever the alternate vendor answers with a payload
\* that lacks completion, the invocation completes with an error string as
\* its answer.
C10_AnthropicErrorString ==
  (/\ last.requests # <<>>
   /\ last.requests[1].url = ANTHROPIC_URL
   /\ last.response.ok
   /\ "completion" \notin DOMAIN last.response.val)
  => (/\ last.stage = "done"
      /\ last.answer[1] = "Anthropic API error: ")

\* C11: in dummy mode query issues no request and returns a string fixed by
\* (prompt, model, max_tokens, temperature): a call with the arguments of the
\* first dummy call returns what that call returned, whatever the credential
\* and whatever was called in between.
C11_DummyDeterministic ==
  (last.fn = "query" /\ last.dummy) =>
    /\ last.out.requests = <<>>
    /\ last.out.result.ok
    /\ \A i \in 1..Len(log) :
         (/\ log[i].prompt = last.prompt
          /\ log[i].model = last.model
          /\ log[i].max_tokens = last.max_tokens
          /\ log[i].temperature = last.temperature)
         => last.out.result.val = log[i].out.result.val

\* C11 witness: a later dummy call repeats the arguments of the first one
\* with another credential.
C11_Witness ==
  /\ last.fn = "query"
  /\ last.dummy
  /\ log # <<>>
  /\ log[1].prompt = last.prompt
  /\ log[1].model = last.model
  /\ log[1].api_key # last.api_key
  /\ last.out.result.val = log[1].out.result.val

\* C12 (as amended): an invocation issues at most one network request, and
\* it issues one exactly when it gets as far as query with dummy mode off.
C12_AtMostOneRequest ==
  [][last'.n = last.n + 1
     => (/\ Len(last'.requests) <= 1
         /\ (Len(last'.requests) = 1
               <=> (last'.stage \in {"query", "done"} /\ ~DUMMY)))]_vars

\* C12 witness: an invocation after the first completes with its one request.
C12_Witness ==
  /\ last.n >= 2
  /\ last.stage = "done"
  /\ Len(last.requests) = 1
  /\ last.response.ok

\* C12 (as claimed): every invocation issues exactly one network request.
C12_ExactlyOneRequest ==
  last.n >= 1 => Len(last.requests) = 1

\* C13 (as claimed): whatever the debugger raises while a context section
\* is retrieved, build_context_prompt_body returns a body.
C13_RetrievalNeverFatal ==
  last.fn = "build_context_prompt_body" => last.out.result.ok

C15_ListModels ==
  (last.n >= 1 /\ last.argv.list_models /\ get_api_key(last.argv.model).ok) =>
    LET listed == get_openai_models(get_api_key(last.argv.model).val,
                                    Ok(models_payload))
    IN /\ last.requests = listed.requests
       /\ last.response = Ok(models_payload) => last.answer = listed.result.val

\* C16: after an invocation that completed its round trip the stored
\* location is the one it read and the stored command is its effective
\* command.
C16_BaselineUpdate ==
  last.stage = "done" => (LAST_PC = last.read /\ LAST_COMMAND = last.eff)

\* C16 witness: an invocation completes with a carried command and no reset.
C16_Witness ==
  /\ last.stage = "done"
  /\ last.argv.command = None
  /\ last.eff \in Commands
  /\ ~last.clear
  /\ last.window # <<>>
  /\ LAST_COMMAND = last.eff

\* C17 (as amended): the two lists always have the same length; the stored
\* location changes only in an invocation that appends a turn, and such an
\* invocation stores the location it read with its question and its answer
\* at the end of the lists.
C17_PairedAndLocation ==
  [][/\ Len(LAST_QUESTION) = Len(LAST_ANSWER)
     /\ Len(LAST_QUESTION') = Len(LAST_ANSWER')
     /\ last'.n = last.n + 1 =>
          /\ LAST_PC' # LAST_PC => last'.stage = "done"
          /\ last'.stage = "done" =>
               /\ LAST_PC' = last'.read
               /\ LAST_QUESTION' # <<>>
               /\ LAST_QUESTION'[Len(LAST_QUESTION')] = join(last'.argv.question)
               /\ LAST_ANSWER'[Len(LAST_ANSWER')] = last'.answer
          /\ last'.stage # "done" =>
               /\ LAST_PC' = LAST_PC
               /\ LAST_QUESTION' \in {LAST_QUESTION, <<>>}]_vars

\* C17 witness: an invocation that aborts after it cleared retained turns.
C17_Witness ==
  /\ last.stage = "query"
  /\ last.clear
  /\ last.pre.LAST_QUESTION # <<>>
  /\ LAST_QUESTION = <<>>
  /\ LAST_ANSWER = <<>>
  /\ LAST_PC = last.pre.LAST_PC

\* C17 (as claimed): the stored location changes in an invocation if and
\* only if the invocation appends a turn.
C17_LocationChangesIffTurn ==
  [][last'.n = last.n + 1
     => (LAST_PC' # LAST_PC <=> last'.stage = "done")]_vars

\* C18 (as claimed): when query is given the credential get_api_key resolves
\* for the model name, the Anthropic key goes to the alternate vendor's
\* endpoint and to no other.
C18_CredentialMatchesTransport ==
  (/\ last.fn = "query"
   /\ ~last.dummy
   /\ get_api_key(last.model).ok
   /\ last.api_key = get_api_key(last.model).val)
  => (last.out.requests[1].url = ANTHROPIC_URL
      <=> last.out.requests[1].credential.value = <<"secret of", "ANTHROPIC_API_KEY">>)

\* C19 (as amended): an invocation that reads the location stores its
\* effective command, whether or not it then completes, and one that does
\* not read it leaves the stored command; so an invocation without -c at the
\* stored location has the stored command, which is the effective command
\* of the latest invocation that read the location, and runs it again.
C19_StoredBeforeBuild ==
  [][last'.n = last.n + 1 =>
       /\ last'.read # "unread" => LAST_COMMAND' = last'.eff
       /\ last'.read = "unread" => LAST_COMMAND' = LAST_COMMAND
       /\ (last'.argv.command = None /\ last'.read = LAST_PC) =>
            /\ last'.eff = LAST_COMMAND
            /\ last.read # "unread" => last'.eff = last.eff
            /\ last'.eff # None => last'.ran = <<"info reg $pc", last'.eff>>]_vars

\* C19 witness: the first invocation asked about the context and was
\* answered, the second gave -c and aborted, and the third, without -c at
\* the same location, runs the command of the second.
C19_Witness ==
  /\ last.n = 3
  /\ last.argv.command = None
  /\ last.eff = "info frame"
  /\ last.read = last.pre.LAST_PC
  /\ Len(last.window) = 1
  /\ \E i \in 1..Len(last.window[1][2]) :
       last.window[1][2][i] = "Consider the following context in the GDB debugger:\n"
  /\ last.ran = <<"info reg $pc", "info frame">>

\* C19 (as claimed): an invocation without -c at the stored location has the
\* command that the latest invocation that read the location was given with
\* -c.
C19_ExplicitOfLatest ==
  [][(/\ last'.n = last.n + 1
      /\ last.read # "unread"
      /\ last'.argv.command = None
      /\ last'.read = LAST_PC)
     => last'.eff = last.argv.command]_vars

\* C20: when the alternate vendor's payload lacks completion and has detail,
\* the invocation completes with the error string as its answer, appends it
\* as the answer of a new turn and stores the location; the next invocation
\* at that location has the error string as an assistant message, after the
\* question it answered, in its prompt.
C20_ErrorStringIsATurn ==
  [][last'.n = last.n + 1 =>
       LET err(l) == /\ l.requests # <<>>
                     /\ l.requests[1].url = ANTHROPIC_URL
                     /\ l.response.ok
                     /\ "completion" \notin DOMAIN l.response.val
                     /\ "detail" \in DOMAIN l.response.val
       IN /\ err(last') =>
               /\ last'.stage = "done"
               /\ last'.answer = <<"Anthropic API error: ">> \o last'.response.val.detail
               /\ LAST_QUESTION'[Len(LAST_QUESTION')] = join(last'.argv.question)
               /\ LAST_ANSWER'[Len(LAST_ANSWER')] = last'.answer
               /\ LAST_PC' = last'.read
          /\ (err(last) /\ last'.read = last.read /\ last'.prompt # <<>>) =>
               \E i \in 4..Len(last'.prompt) :
                 /\ last'.prompt[i] = [role |-> "assistant", content |-> last.answer]
                 /\ last'.prompt[i - 1] =
                      [role |-> "user", content |-> join(last.argv.question)]]_vars

\* C20 witness: a prompt that holds the error string as an assistant message.
C20_Witness ==
  /\ last.n >= 2
  /\ \E i \in 1..Len(last.prompt) :
       /\ last.prompt[i].role = "assistant"
       /\ last.prompt[i].content[1] = "Anthropic API error: "

====
